---- MODULE Spec2Model ----
(***************************************************************************)
(* jsonrpc-client-core: the JSON-RPC 2.0 client engine of                  *)
(* src/core/src/lib.rs.                                                    *)
(*                                                                         *)
(* A client generated by jsonrpc_client! holds a transport and a u64 id    *)
(* counter.  Every generated method increments the counter, builds the     *)
(* request with format_request, serializes it with serde_json::to_vec,     *)
(* hands the bytes to Transport::send and validates the reply with         *)
(* parse_response.                                                         *)
(*                                                                         *)
(* Bytes are sequences of one-character strings.  A JSON value             *)
(* (serde_json::Value) is a record [t, v]: t is the variant, v its payload. *)
(* Integers are scaled from 64 to NumBits bits.                            *)
(***************************************************************************)
EXTENDS Integers, Sequences, FiniteSets, TLC

(***************************************************************************)
(* Bounds of the model.                                                    *)
(***************************************************************************)
\* Width of u64 / i64 in the model (64 in the program).
NumBits == 17
\* Number of calls made on the client instance.
MaxCalls == 3

RECURSIVE Pow2(_)
Pow2(n) == IF n = 0 THEN 1 ELSE 2 * Pow2(n - 1)

U64Max == Pow2(NumBits) - 1
I64Max == Pow2(NumBits - 1) - 1
I64Min == 0 - Pow2(NumBits - 1)

(***************************************************************************)
(* serde_json::Value                                                       *)
(***************************************************************************)
JNull == [t |-> "null", v |-> "null"]
JBool(b) == [t |-> "bool", v |-> b]
\* Number(N::PosInt(u64))
JPosInt(n) == [t |-> "PosInt", v |-> n]
\* Number(N::NegInt(i64)), always negative
JNegInt(n) == [t |-> "NegInt", v |-> n]
\* Number(N::Float(f64)): sign, integer part, fraction digits without
\* trailing zeros
JFloat(neg, int, frac) == [t |-> "Float", v |-> [neg |-> neg, int |-> int, frac |-> frac]]
JStr(s) == [t |-> "str", v |-> s]
JArr(elems) == [t |-> "arr", v |-> elems]
\* Object(Map<String, Value>): a function from keys to values
JObj(map) == [t |-> "obj", v |-> map]

EmptyMap == [k \in {} |-> JNull]
\* Map::insert: a later value for a key replaces the earlier one.
MapInsert(map, key, val) ==
    [k \in (DOMAIN map) \cup {key} |-> IF k = key THEN val ELSE map[k]]
\* Map::remove's return value, Option<Value>.
None == [some |-> FALSE, val |-> JNull]
Some(val) == [some |-> TRUE, val |-> val]
MapGet(map, key) == IF key \in DOMAIN map THEN Some(map[key]) ELSE None

\* From<u64> for Value / From<i64> for Number
NumberFromInt(n) == IF n >= 0 THEN JPosInt(n) ELSE JNegInt(n)

(***************************************************************************)
(* Characters.  Ascii lists the characters of the model in byte order, as  *)
(* BTreeMap<String, _> orders the keys of a serde_json::Map.               *)
(***************************************************************************)
Ascii ==
    << " ", "\"", ",", "-", ".", "/",
       "0", "1", "2", "3", "4", "5", "6", "7", "8", "9", ":",
       "H", "T", "[", "\\", "]",
       "a", "b", "c", "d", "e", "f", "g", "h", "i", "j", "k", "l", "m",
       "n", "o", "p", "q", "r", "s", "t", "u", "v", "w", "x", "y", "z",
       "{", "}" >>
CharCode(c) == CHOOSE i \in 1..Len(Ascii) : Ascii[i] = c

DigitChars == << "0", "1", "2", "3", "4", "5", "6", "7", "8", "9" >>
IsDigit(c) == \E i \in 1..10 : DigitChars[i] = c
DigitVal(c) == (CHOOSE i \in 1..10 : DigitChars[i] = c) - 1

\* Ord for String: bytewise lexicographic.
RECURSIVE StrLess(_, _)
StrLess(a, b) ==
    IF b = <<>> THEN FALSE
    ELSE IF a = <<>> THEN TRUE
    ELSE IF Head(a) = Head(b) THEN StrLess(Tail(a), Tail(b))
    ELSE CharCode(Head(a)) < CharCode(Head(b))

\* The keys of a Map in iteration order.
RECURSIVE SortedKeys(_)
SortedKeys(keys) ==
    IF keys = {} THEN <<>>
    ELSE LET least == CHOOSE k \in keys : \A o \in keys \ {k} : StrLess(k, o)
         IN  <<least>> \o SortedKeys(keys \ {least})

(***************************************************************************)
(* serde_json::to_vec for a Value (compact formatter)                      *)
(***************************************************************************)
RECURSIVE Digits(_)
Digits(n) ==
    IF n < 10 THEN << DigitChars[n + 1] >>
    ELSE Append(Digits(n \div 10), DigitChars[(n % 10) + 1])

\* format_escaped_str_contents: the quote and the backslash are escaped.
RECURSIVE Escaped(_)
Escaped(s) ==
    IF s = <<>> THEN <<>>
    ELSE IF Head(s) \in {"\"", "\\"} THEN << "\\", Head(s) >> \o Escaped(Tail(s))
    ELSE << Head(s) >> \o Escaped(Tail(s))

WriteStr(s) == << "\"" >> \o Escaped(s) \o << "\"" >>

RECURSIVE WriteValue(_)
RECURSIVE WriteElems(_)
RECURSIVE WriteMembers(_, _)
WriteElems(elems) ==
    IF elems = <<>> THEN <<>>
    ELSE WriteValue(Head(elems))
         \o (IF Len(elems) > 1 THEN << "," >> ELSE <<>>)
         \o WriteElems(Tail(elems))
WriteMembers(map, keys) ==
    IF keys = <<>> THEN <<>>
    ELSE WriteStr(Head(keys)) \o << ":" >> \o WriteValue(map[Head(keys)])
         \o (IF Len(keys) > 1 THEN << "," >> ELSE <<>>)
         \o WriteMembers(map, Tail(keys))
WriteValue(val) ==
    CASE val.t = "null"   -> << "n", "u", "l", "l" >>
      [] val.t = "bool"   -> IF val.v THEN << "t", "r", "u", "e" >>
                             ELSE << "f", "a", "l", "s", "e" >>
      [] val.t = "PosInt" -> Digits(val.v)
      [] val.t = "NegInt" -> << "-" >> \o Digits(0 - val.v)
      [] val.t = "Float"  -> (IF val.v.neg THEN << "-" >> ELSE <<>>)
                             \o Digits(val.v.int) \o << "." >>
                             \o (IF val.v.frac = <<>> THEN << "0" >> ELSE val.v.frac)
      [] val.t = "str"    -> WriteStr(val.v)
      [] val.t = "arr"    -> << "[" >> \o WriteElems(val.v) \o << "]" >>
      [] val.t = "obj"    -> << "{" >> \o WriteMembers(val.v, SortedKeys(DOMAIN val.v))
                             \o << "}" >>

\* Writing a Value into a Vec<u8> has no failing case: keys are strings,
\* numbers are finite and the writer is memory.
to_vec(val) == [ok |-> TRUE, bytes |-> WriteValue(val)]

(***************************************************************************)
(* serde_json::from_slice::<Value>                                         *)
(***************************************************************************)
Whitespace == { " " }
At(s, i) == IF i >= 1 /\ i <= Len(s) THEN s[i] ELSE "EOF"
ParseFail == [ok |-> FALSE, v |-> JNull, i |-> 0]
ParseOk(val, next) == [ok |-> TRUE, v |-> val, i |-> next]

RECURSIVE SkipWs(_, _)
SkipWs(s, i) == IF At(s, i) \in Whitespace THEN SkipWs(s, i + 1) ELSE i

\* parse_str, from the character after the opening quote.
RECURSIVE ScanString(_, _, _)
ScanString(s, i, acc) ==
    LET c == At(s, i) IN
    IF c = "EOF" THEN ParseFail
    ELSE IF c = "\"" THEN ParseOk(acc, i + 1)
    ELSE IF c = "\\"
         THEN IF At(s, i + 1) \in {"\"", "\\", "/"}
              THEN ScanString(s, i + 2, Append(acc, At(s, i + 1)))
              ELSE ParseFail
    ELSE ScanString(s, i + 1, Append(acc, c))

\* A run of digits from i: its value, its digits and the index after it.
RECURSIVE ScanDigits(_, _, _, _)
ScanDigits(s, i, val, ds) ==
    IF IsDigit(At(s, i))
    THEN ScanDigits(s, i + 1, val * 10 + DigitVal(At(s, i)), Append(ds, At(s, i)))
    ELSE [val |-> val, ds |-> ds, i |-> i]

RECURSIVE StripZeros(_)
StripZeros(ds) ==
    IF ds # <<>> /\ ds[Len(ds)] = "0" THEN StripZeros(SubSeq(ds, 1, Len(ds) - 1))
    ELSE ds

\* parse_integer / parse_decimal: -?(0|[1-9][0-9]*)(\.[0-9]+)?
\* An integer that does not fit u64 (i64 when negative) becomes a Float,
\* and so does -0.
ParseNumber(s, i) ==
    LET neg   == At(s, i) = "-"
        j     == IF neg THEN i + 1 ELSE i
        int   == ScanDigits(s, j, 0, <<>>)
        frac  == ScanDigits(s, int.i + 1, 0, <<>>)
    IN  IF int.ds = <<>> THEN ParseFail
        ELSE IF Len(int.ds) > 1 /\ Head(int.ds) = "0" THEN ParseFail
        ELSE IF At(s, int.i) = "."
             THEN IF frac.ds = <<>> THEN ParseFail
                  ELSE ParseOk(JFloat(neg, int.val, StripZeros(frac.ds)), frac.i)
        ELSE IF neg
             THEN IF int.val = 0 \/ 0 - int.val < I64Min
                  THEN ParseOk(JFloat(TRUE, int.val, <<>>), int.i)
                  ELSE ParseOk(JNegInt(0 - int.val), int.i)
        ELSE IF int.val > U64Max THEN ParseOk(JFloat(FALSE, int.val, <<>>), int.i)
        ELSE ParseOk(JPosInt(int.val), int.i)

\* parse_ident
ParseIdent(s, i, word, val) ==
    IF i + Len(word) - 1 <= Len(s) /\ SubSeq(s, i, i + Len(word) - 1) = word
    THEN ParseOk(val, i + Len(word))
    ELSE ParseFail

RECURSIVE ParseValue(_, _)
RECURSIVE ParseElems(_, _, _)
RECURSIVE ParseMembers(_, _, _)

\* SeqAccess: a value at i, then "," and more, or "]".
ParseElems(s, i, acc) ==
    LET r == ParseValue(s, i)
        k == SkipWs(s, r.i)
    IN  IF ~r.ok THEN ParseFail
        ELSE IF At(s, k) = "," THEN ParseElems(s, k + 1, Append(acc, r.v))
        ELSE IF At(s, k) = "]" THEN ParseOk(JArr(Append(acc, r.v)), k + 1)
        ELSE ParseFail

\* MapAccess: "key" : value at i, then "," and more, or "}".
ParseMembers(s, i, map) ==
    LET j   == SkipWs(s, i)
        key == ScanString(s, j + 1, <<>>)
        c   == SkipWs(s, key.i)
        r   == ParseValue(s, c + 1)
        k   == SkipWs(s, r.i)
    IN  IF At(s, j) # "\"" \/ ~key.ok THEN ParseFail
        ELSE IF At(s, c) # ":" \/ ~r.ok THEN ParseFail
        ELSE IF At(s, k) = "," THEN ParseMembers(s, k + 1, MapInsert(map, key.v, r.v))
        ELSE IF At(s, k) = "}" THEN ParseOk(JObj(MapInsert(map, key.v, r.v)), k + 1)
        ELSE ParseFail

\* Deserializer::parse_value
ParseValue(s, i0) ==
    LET i == SkipWs(s, i0)
        c == At(s, i)
        str == ScanString(s, i + 1, <<>>)
    IN  CASE c = "n" -> ParseIdent(s, i, << "n", "u", "l", "l" >>, JNull)
          [] c = "t" -> ParseIdent(s, i, << "t", "r", "u", "e" >>, JBool(TRUE))
          [] c = "f" -> ParseIdent(s, i, << "f", "a", "l", "s", "e" >>, JBool(FALSE))
          [] c = "\"" -> IF str.ok THEN ParseOk(JStr(str.v), str.i) ELSE ParseFail
          [] c = "-" \/ IsDigit(c) -> ParseNumber(s, i)
          [] c = "[" -> IF At(s, SkipWs(s, i + 1)) = "]"
                        THEN ParseOk(JArr(<<>>), SkipWs(s, i + 1) + 1)
                        ELSE ParseElems(s, i + 1, <<>>)
          [] c = "{" -> IF At(s, SkipWs(s, i + 1)) = "}"
                        THEN ParseOk(JObj(EmptyMap), SkipWs(s, i + 1) + 1)
                        ELSE ParseMembers(s, i + 1, EmptyMap)
          [] OTHER -> ParseFail

\* One value, then only whitespace up to the end (Deserializer::end).
Parse(bytes) ==
    LET r == ParseValue(bytes, 1)
    IN  IF r.ok /\ SkipWs(bytes, r.i) = Len(bytes) + 1
        THEN [ok |-> TRUE, val |-> r.v]
        ELSE [ok |-> FALSE, val |-> JNull]

(***************************************************************************)
(* Strings of the protocol                                                 *)
(***************************************************************************)
K_jsonrpc == << "j", "s", "o", "n", "r", "p", "c" >>
K_id      == << "i", "d" >>
K_method  == << "m", "e", "t", "h", "o", "d" >>
K_params  == << "p", "a", "r", "a", "m", "s" >>
K_result  == << "r", "e", "s", "u", "l", "t" >>
K_error   == << "e", "r", "r", "o", "r" >>
K_code    == << "c", "o", "d", "e" >>
K_message == << "m", "e", "s", "s", "a", "g", "e" >>
K_data    == << "d", "a", "t", "a" >>
V_2_0     == << "2", ".", "0" >>

\* A Map from a sequence of <<key, value>> pairs, as json!({...}) builds it.
RECURSIVE MapOf(_)
MapOf(pairs) ==
    IF pairs = <<>> THEN EmptyMap
    ELSE MapInsert(MapOf(SubSeq(pairs, 1, Len(pairs) - 1)),
                   pairs[Len(pairs)][1], pairs[Len(pairs)][2])

(***************************************************************************)
(* Results and errors (error_chain! ErrorKind)                             *)
(***************************************************************************)
NoErr == [kind |-> "none", msg |-> "", val |-> JNull]
TransportError == [kind |-> "TransportError", msg |-> "", val |-> JNull]
SerializeError == [kind |-> "SerializeError", msg |-> "", val |-> JNull]
\* cause: the message of the error that chain_err wraps, "" when there is none
ResponseError(msg, cause) ==
    [kind |-> "ResponseError", msg |-> msg, val |-> [t |-> "cause", v |-> cause]]
\* JsonRpcError(jsonrpc_core::types::error::Error)
JsonRpcError(error) == [kind |-> "JsonRpcError", msg |-> "", val |-> [t |-> "error", v |-> error]]

Ok(val)  == [ok |-> TRUE, val |-> val, err |-> NoErr]
Err(err) == [ok |-> FALSE, val |-> JNull, err |-> err]

(***************************************************************************)
(* Method specifications: jsonrpc_client! instantiated with                *)
(* ExampleRpcClient's and TestRpcClient's methods, and with one method     *)
(* whose argument type has a Serialize impl that can fail (a map keyed by  *)
(* tuples: serde_json reports "key must be a string" for every entry).     *)
(***************************************************************************)
M_nullary == << "n", "u", "l", "l", "a", "r", "y" >>
M_echo    == << "e", "c", "h", "o" >>
M_concat  == << "c", "o", "n", "c", "a", "t" >>
M_ping    == << "p", "i", "n", "g" >>
M_put     == << "p", "u", "t" >>

MethodSpecs ==
    { [name |-> M_nullary, args |-> <<>>,                ret |-> "unit"],
      [name |-> M_echo,    args |-> << "String" >>,       ret |-> "String"],
      [name |-> M_concat,  args |-> << "String", "u64" >>, ret |-> "String"],
      [name |-> M_ping,    args |-> << "String" >>,       ret |-> "Value"],
      [name |-> M_put,     args |-> << "TupleKeyMap" >>,  ret |-> "Value"] }

\* The argument values the calls of the model are made with.
S_Hello  == << "H", "e", "l", "l", "o" >>
S_Quoted == << "a", "\"", "\\" >>
\* An argument value: s holds a String's characters, n a u64's value or
\* the number of entries of a map.
ArgString(s) == [ty |-> "String", s |-> s, n |-> 0]
ArgU64(n) == [ty |-> "u64", s |-> <<>>, n |-> n]
ArgTupleKeyMap(n) == [ty |-> "TupleKeyMap", s |-> <<>>, n |-> n]
ArgValues ==
    { ArgString(S_Hello), ArgString(S_Quoted), ArgU64(0), ArgU64(U64Max),
      ArgTupleKeyMap(0), ArgTupleKeyMap(1) }

\* The argument tuples a method can be called with.
ArgTuples(spec) ==
    { tup \in [1..Len(spec.args) -> ArgValues] :
        \A i \in 1..Len(spec.args) : tup[i].ty = spec.args[i] }

(***************************************************************************)
(* Transports.  send returns Ok(bytes) or Err(E); which bytes is up to the *)
(* transport and the server behind it.                                     *)
(***************************************************************************)
SendOk(bytes) == [kind |-> "Ok", bytes |-> bytes]
SendErr == [kind |-> "Err", bytes |-> <<>>]

S_invalid_request ==
    << "T", "h", "i", "s", " ", "w", "a", "s", " ", "a", "n", " ",
       "i", "n", "v", "a", "l", "i", "d", " ", "r", "e", "q", "u", "e", "s", "t" >>
ErrorObject(code, message, data) ==
    JObj(MapOf(<< << K_code, code >>, << K_message, message >>, << K_data, data >> >>))
\* The error object of tests::ErrorTransport.
InvalidRequestError ==
    ErrorObject(JNegInt(-32600), JStr(S_invalid_request),
                JArr(<< JPosInt(1), JPosInt(2), JPosInt(3) >>))
\* tests::ErrorTransport
ErrorTransport_send ==
    SendOk(to_vec(JObj(MapOf(<< << K_jsonrpc, JStr(V_2_0) >>,
                                << K_id, JPosInt(1) >>,
                                << K_error, InvalidRequestError >> >>))).bytes)

\* The fields a response object of the model has or lacks.
S_bad == << "b", "a", "d" >>
JsonrpcFields ==
    { None, Some(JStr(V_2_0)), Some(JStr(<< "1", ".", "0" >>)), Some(JFloat(FALSE, 2, <<>>)) }
IdFields ==
    { None, Some(JStr(<< "1" >>)), Some(JFloat(FALSE, 1, <<>>)), Some(JNull) }
    \cup { Some(JPosInt(i)) : i \in 1..MaxCalls }
ErrorFields ==
    { None,
      Some(InvalidRequestError),
      Some(JObj(MapOf(<< << K_code, JPosInt(7) >>, << K_message, JStr(S_bad) >> >>))),
      Some(JObj(MapOf(<< << K_code, JPosInt(I64Max + 1) >>, << K_message, JStr(S_bad) >> >>))),
      Some(JObj(MapOf(<< << K_code, JFloat(FALSE, 7, <<>>) >>, << K_message, JStr(S_bad) >> >>))),
      Some(JObj(MapOf(<< << K_message, JStr(S_bad) >> >>))),
      Some(JObj(MapOf(<< << K_code, JPosInt(7) >> >>))),
      Some(JObj(MapOf(<< << K_code, JPosInt(7) >>, << K_message, JPosInt(7) >> >>))),
      Some(JNull) }
ResultFields ==
    { None, Some(JNull), Some(JStr(S_Hello)) }

ResponseObject(jsonrpc, rid, error, result) ==
    LET present == { f \in { << K_jsonrpc, jsonrpc >>, << K_id, rid >>,
                             << K_error, error >>, << K_result, result >> } : f[2].some }
    IN  JObj([k \in { f[1] : f \in present } |->
                (CHOOSE f \in present : f[1] = k)[2].val])

\* Replies that are no JSON, JSON that is no object, and objects written
\* with whitespace or with a key twice.
RawReplies ==
    { << "o", "k" >>,
      <<>>,
      << "{", "\"", "i", "d", "\"", ":", "1" >>,
      << "{", "}", "x" >>,
      << "n", "u", "l", "l" >>,
      << "[", "1", "]" >>,
      << "\"", "2", ".", "0", "\"" >>,
      << "1" >>,
      << "{", " ", "\"", "i", "d", "\"", " ", ":", " ", "1", " ", ",", " ",
         "\"", "j", "s", "o", "n", "r", "p", "c", "\"", ":", "\"", "2", ".", "0", "\"",
         ",", "\"", "r", "e", "s", "u", "l", "t", "\"", ":", "n", "u", "l", "l", " ", "}", " " >>,
      << "{", "\"", "i", "d", "\"", ":", "2", ",", "\"", "i", "d", "\"", ":", "1", ",",
         "\"", "j", "s", "o", "n", "r", "p", "c", "\"", ":", "\"", "2", ".", "0", "\"",
         ",", "\"", "r", "e", "s", "u", "l", "t", "\"", ":", "\"", "H", "e", "l", "l", "o", "\"", "}" >> }

StaticReplies ==
    { SendErr, ErrorTransport_send }
    \cup { SendOk(b) : b \in RawReplies }
    \cup { SendOk(to_vec(ResponseObject(j, i, e, r)).bytes) :
             j \in JsonrpcFields, i \in IdFields, e \in ErrorFields, r \in ResultFields }

\* serde_json::from_slice::<Value>.  The replies of StaticReplies are parsed
\* once and looked up afterwards.
StaticBytes == { r.bytes : r \in StaticReplies }
ParsedStatic == [b \in StaticBytes |-> Parse(b)]
from_slice(bytes) == IF bytes \in StaticBytes THEN ParsedStatic[bytes] ELSE Parse(bytes)

(***************************************************************************)
(* serde_json::to_value and from_value                                     *)
(***************************************************************************)
\* Serialize for one argument value.
to_value_arg(a) ==
    CASE a.ty = "String"      -> Ok(JStr(a.s))
      [] a.ty = "u64"         -> Ok(JPosInt(a.n))
      [] a.ty = "TupleKeyMap" -> IF a.n = 0 THEN Ok(JObj(EmptyMap)) ELSE Err(SerializeError)

\* Serialize for the params tuple ($($arg_name,)*): the unit () serializes
\* as null, a tuple of one or more elements as an array of its elements.
to_value(params) ==
    IF params = <<>> THEN Ok(JNull)
    ELSE IF \E i \in 1..Len(params) : ~to_value_arg(params[i]).ok THEN Err(SerializeError)
    ELSE Ok(JArr([i \in 1..Len(params) |-> to_value_arg(params[i]).val]))

\* from_value::<R> that takes every value for every type.
from_value_unchecked(R, val) == Ok(val)

\* from_value::<R> for the return types of the model.
from_value(R, val) ==
    CASE R = "unit"   -> IF val = JNull THEN Ok([t |-> "unit", v |-> "()"]) ELSE Err(NoErr)
      [] R = "String" -> IF val.t = "str" THEN Ok(val) ELSE Err(NoErr)
      [] R = "Value"  -> Ok(val)

\* Deserialize for jsonrpc_core's ErrorCode: an i64, mapped by From<i64>.
ErrorCodeFrom(code) ==
    CASE code = -32700 -> [variant |-> "ParseError", n |-> 0]
      [] code = -32600 -> [variant |-> "InvalidRequest", n |-> 0]
      [] code = -32601 -> [variant |-> "MethodNotFound", n |-> 0]
      [] code = -32602 -> [variant |-> "InvalidParams", n |-> 0]
      [] code = -32603 -> [variant |-> "InternalError", n |-> 0]
      [] OTHER         -> [variant |-> "ServerError", n |-> code]
\* ErrorCode::code
ErrorCodeValue(ec) ==
    CASE ec.variant = "ParseError"     -> -32700
      [] ec.variant = "InvalidRequest" -> -32600
      [] ec.variant = "MethodNotFound" -> -32601
      [] ec.variant = "InvalidParams"  -> -32602
      [] ec.variant = "InternalError"  -> -32603
      [] OTHER                         -> ec.n
from_value_ErrorCode(val) ==
    IF val.t = "NegInt" \/ (val.t = "PosInt" /\ val.v <= I64Max)
    THEN Ok(ErrorCodeFrom(val.v))
    ELSE Err(NoErr)

(***************************************************************************)
(* The engine                                                              *)
(***************************************************************************)
\* format_request: json!({...}) converts params with to_value(..).unwrap(),
\* so a params value that does not serialize panics here.
format_request(id, method, params) ==
    IF ~to_value(params).ok THEN [panic |-> TRUE, val |-> JNull]
    ELSE [panic |-> FALSE,
          val |-> JObj(MapOf(<< << K_jsonrpc, JStr(V_2_0) >>,
                                << K_id, NumberFromInt(id) >>,
                                << K_method, JStr(method) >>,
                                << K_params, to_value(params).val >> >>))]

\* get_response_as_map, with the empty map for a value that is no object.
get_response_as_map_of_any_value(response) ==
    LET response_json == from_slice(response)
    IN  IF ~response_json.ok THEN Err(ResponseError("Response is not valid json", ""))
        ELSE IF response_json.val.t = "obj" THEN Ok(response_json.val.v)
        ELSE Ok(EmptyMap)

get_response_as_map(response) ==
    LET response_json == from_slice(response)
    IN  IF ~response_json.ok THEN Err(ResponseError("Response is not valid json", ""))
        ELSE IF response_json.val.t = "obj" THEN Ok(response_json.val.v)
        ELSE Err(ResponseError("Response is not a json object", ""))

\* json_value_to_rpc_error, with the data field left out of the error.
json_value_to_rpc_error_no_data(error_json) ==
    LET map  == error_json.v
        code == from_value_ErrorCode(MapGet(map, K_code).val)
        message == MapGet(map, K_message)
    IN  IF error_json.t # "obj" THEN Err(ResponseError("Error is not a json object", ""))
        ELSE IF ~MapGet(map, K_code).some
             THEN Err(ResponseError("Error has no code field", ""))
        ELSE IF ~code.ok THEN Err(ResponseError("Malformed code field in error", ""))
        ELSE IF ~(message.some /\ message.val.t = "str")
             THEN Err(ResponseError("Error has no message field of string type", ""))
        ELSE Ok([code |-> code.val, message |-> message.val.v, data |-> None])

\* json_value_to_rpc_error, with the empty message for a message that is
\* absent or not a string.
json_value_to_rpc_error_default_message(error_json) ==
    LET map  == error_json.v
        code == from_value_ErrorCode(MapGet(map, K_code).val)
        message == MapGet(map, K_message)
    IN  IF error_json.t # "obj" THEN Err(ResponseError("Error is not a json object", ""))
        ELSE IF ~MapGet(map, K_code).some
             THEN Err(ResponseError("Error has no code field", ""))
        ELSE IF ~code.ok THEN Err(ResponseError("Malformed code field in error", ""))
        ELSE Ok([code |-> code.val,
                 message |-> IF message.some /\ message.val.t = "str"
                             THEN message.val.v ELSE <<>>,
                 data |-> MapGet(map, K_data)])

json_value_to_rpc_error(error_json) ==
    LET map  == error_json.v
        code == from_value_ErrorCode(MapGet(map, K_code).val)
        message == MapGet(map, K_message)
    IN  IF error_json.t # "obj" THEN Err(ResponseError("Error is not a json object", ""))
        ELSE IF ~MapGet(map, K_code).some
             THEN Err(ResponseError("Error has no code field", ""))
        ELSE IF ~code.ok THEN Err(ResponseError("Malformed code field in error", ""))
        ELSE IF ~(message.some /\ message.val.t = "str")
             THEN Err(ResponseError("Error has no message field of string type", ""))
        ELSE Ok([code |-> code.val, message |-> message.val.v, data |-> MapGet(map, K_data)])

\* check_response_and_get_result, with the result looked at before the error.
check_response_result_first(response_map, expected_id) ==
    LET error == json_value_to_rpc_error(MapGet(response_map, K_error).val)
    IN  IF MapGet(response_map, K_jsonrpc) # Some(JStr(V_2_0))
        THEN Err(ResponseError("Response is not JSON-RPC 2.0 compatible", ""))
        ELSE IF MapGet(response_map, K_id) # Some(NumberFromInt(expected_id))
        THEN Err(ResponseError("Response id not equal to request id", ""))
        ELSE IF MapGet(response_map, K_result).some
        THEN Ok(MapGet(response_map, K_result).val)
        ELSE IF MapGet(response_map, K_error).some
        THEN IF error.ok THEN Err(JsonRpcError(error.val))
             ELSE Err(ResponseError("Malformed error object", error.err.msg))
        ELSE Err(ResponseError("Response has no \"result\" field", ""))

\* check_response_and_get_result, with the id checked before the version.
check_response_id_first(response_map, expected_id) ==
    LET error == json_value_to_rpc_error(MapGet(response_map, K_error).val)
    IN  IF MapGet(response_map, K_id) # Some(NumberFromInt(expected_id))
        THEN Err(ResponseError("Response id not equal to request id", ""))
        ELSE IF MapGet(response_map, K_jsonrpc) # Some(JStr(V_2_0))
        THEN Err(ResponseError("Response is not JSON-RPC 2.0 compatible", ""))
        ELSE IF MapGet(response_map, K_error).some
        THEN IF error.ok THEN Err(JsonRpcError(error.val))
             ELSE Err(ResponseError("Malformed error object", error.err.msg))
        ELSE IF MapGet(response_map, K_result).some
        THEN Ok(MapGet(response_map, K_result).val)
        ELSE Err(ResponseError("Response has no \"result\" field", ""))

\* check_response_and_get_result, with an absent id let through.
check_response_absent_id_passes(response_map, expected_id) ==
    LET error == json_value_to_rpc_error(MapGet(response_map, K_error).val)
    IN  IF MapGet(response_map, K_jsonrpc) # Some(JStr(V_2_0))
        THEN Err(ResponseError("Response is not JSON-RPC 2.0 compatible", ""))
        ELSE IF MapGet(response_map, K_id).some
                /\ MapGet(response_map, K_id) # Some(NumberFromInt(expected_id))
        THEN Err(ResponseError("Response id not equal to request id", ""))
        ELSE IF MapGet(response_map, K_error).some
        THEN IF error.ok THEN Err(JsonRpcError(error.val))
             ELSE Err(ResponseError("Malformed error object", error.err.msg))
        ELSE IF MapGet(response_map, K_result).some
        THEN Ok(MapGet(response_map, K_result).val)
        ELSE Err(ResponseError("Response has no \"result\" field", ""))

\* check_response_and_get_result, with the id compared as a number: the
\* float n.0 and the string of the digits of n pass for the id n.
check_response_numeric_id(response_map, expected_id) ==
    LET error == json_value_to_rpc_error(MapGet(response_map, K_error).val)
        rid   == MapGet(response_map, K_id)
    IN  IF MapGet(response_map, K_jsonrpc) # Some(JStr(V_2_0))
        THEN Err(ResponseError("Response is not JSON-RPC 2.0 compatible", ""))
        ELSE IF rid \notin { Some(NumberFromInt(expected_id)),
                             Some(JFloat(FALSE, expected_id, <<>>)),
                             Some(JStr(Digits(expected_id))) }
        THEN Err(ResponseError("Response id not equal to request id", ""))
        ELSE IF MapGet(response_map, K_error).some
        THEN IF error.ok THEN Err(JsonRpcError(error.val))
             ELSE Err(ResponseError("Malformed error object", error.err.msg))
        ELSE IF MapGet(response_map, K_result).some
        THEN Ok(MapGet(response_map, K_result).val)
        ELSE Err(ResponseError("Response has no \"result\" field", ""))

\* check_response_and_get_result, with null for a result that is absent.
check_response_result_defaults(response_map, expected_id) ==
    LET error == json_value_to_rpc_error(MapGet(response_map, K_error).val)
    IN  IF MapGet(response_map, K_jsonrpc) # Some(JStr(V_2_0))
        THEN Err(ResponseError("Response is not JSON-RPC 2.0 compatible", ""))
        ELSE IF MapGet(response_map, K_id) # Some(NumberFromInt(expected_id))
        THEN Err(ResponseError("Response id not equal to request id", ""))
        ELSE IF MapGet(response_map, K_error).some
        THEN IF error.ok THEN Err(JsonRpcError(error.val))
             ELSE Err(ResponseError("Malformed error object", error.err.msg))
        ELSE IF MapGet(response_map, K_result).some
        THEN Ok(MapGet(response_map, K_result).val)
        ELSE Ok(JNull)

\* check_response_and_get_result, with a response that has both an error
\* and a result refused.
check_response_exactly_one(response_map, expected_id) ==
    LET error == json_value_to_rpc_error(MapGet(response_map, K_error).val)
    IN  IF MapGet(response_map, K_jsonrpc) # Some(JStr(V_2_0))
        THEN Err(ResponseError("Response is not JSON-RPC 2.0 compatible", ""))
        ELSE IF MapGet(response_map, K_id) # Some(NumberFromInt(expected_id))
        THEN Err(ResponseError("Response id not equal to request id", ""))
        ELSE IF MapGet(response_map, K_error).some /\ MapGet(response_map, K_result).some
        THEN Err(ResponseError("Response has both \"error\" and \"result\"", ""))
        ELSE IF MapGet(response_map, K_error).some
        THEN IF error.ok THEN Err(JsonRpcError(error.val))
             ELSE Err(ResponseError("Malformed error object", error.err.msg))
        ELSE IF MapGet(response_map, K_result).some
        THEN Ok(MapGet(response_map, K_result).val)
        ELSE Err(ResponseError("Response has no \"result\" field", ""))

check_response_and_get_result(response_map, expected_id) ==
    LET error == json_value_to_rpc_error(MapGet(response_map, K_error).val)
    IN  IF MapGet(response_map, K_jsonrpc) # Some(JStr(V_2_0))
        THEN Err(ResponseError("Response is not JSON-RPC 2.0 compatible", ""))
        ELSE IF MapGet(response_map, K_id) # Some(NumberFromInt(expected_id))
        THEN Err(ResponseError("Response id not equal to request id", ""))
        ELSE IF MapGet(response_map, K_error).some
        THEN IF error.ok THEN Err(JsonRpcError(error.val))
             ELSE Err(ResponseError("Malformed error object", error.err.msg))
        ELSE IF MapGet(response_map, K_result).some
        THEN Ok(MapGet(response_map, K_result).val)
        ELSE Err(ResponseError("Response has no \"result\" field", ""))

parse_response(T, response, expected_id) ==
    LET response_map == get_response_as_map(response)
        result_json  == check_response_and_get_result(response_map.val, expected_id)
        value        == from_value(T, result_json.val)
    IN  IF ~response_map.ok THEN response_map
        ELSE IF ~result_json.ok THEN result_json
        ELSE IF value.ok THEN value
        ELSE Err(ResponseError("Result cannot deserialize to target type", ""))

\* call_method up to the send: the request bytes, or how the call ended.
call_method_request(id, method, params) ==
    LET request_json == format_request(id, method, params)
        request_raw  == to_vec(request_json.val)
    IN  IF request_json.panic
        THEN [kind |-> "panic", bytes |-> <<>>]
        ELSE IF ~request_raw.ok THEN [kind |-> "err", bytes |-> <<>>]
        ELSE [kind |-> "send", bytes |-> request_raw.bytes]

\* call_method from the return of the send.
call_method_response(R, sent, id) ==
    IF sent.kind = "Err" THEN Err(TransportError)
    ELSE parse_response(R, sent.bytes, id)

(***************************************************************************)
(* What a transport may return                                             *)
(***************************************************************************)
\* tests::EchoTransport: the request as the result, under id rid (1 in the test).
EchoTransport_send(json_data, rid) ==
    SendOk(to_vec(JObj(MapOf(<< << K_jsonrpc, JStr(V_2_0) >>,
                                << K_id, JPosInt(rid) >>,
                                << K_result, from_slice(json_data).val >> >>))).bytes)

\* What the transport may return for a request.
Replies(json_data) ==
    StaticReplies \cup { EchoTransport_send(json_data, rid) : rid \in 1..MaxCalls }

(***************************************************************************)
(* State                                                                   *)
(***************************************************************************)
VARIABLES
    id,        \* the client's id field
    pc,        \* "idle": no call in progress; "sending": inside transport.send;
               \* "returned": the call has ended and the caller holds its outcome
    call,      \* the call in progress: its id, method and params
    request,   \* the bytes handed to transport.send by the call; <<>> before
    sends,     \* how often the call has invoked transport.send
    inflight,  \* the ids of the requests whose transport.send has not returned
    reply,     \* what transport.send returned to the call
    outcome,   \* how the call ended
    ncalls,    \* the number of calls begun on the instance
    ids,       \* the ids the calls used, in call order
    failures   \* the number of earlier calls that did not end in success

vars == << id, pc, call, request, sends, inflight, reply, outcome, ncalls, ids, failures >>

NoCall == [id |-> 0, name |-> <<>>, params |-> <<>>, ret |-> "none"]
NoReply == [kind |-> "none", bytes |-> <<>>]
Success(val) == [kind |-> "Success", msg |-> "", val |-> val]
Panic(msg) == [kind |-> "Panic", msg |-> msg, val |-> JNull]
\* A Result<R> as the outcome of the call.
OutcomeOf(res) == IF res.ok THEN Success(res.val) ELSE res.err

\* new(transport)
Init ==
    /\ id = 0
    /\ pc = "idle"
    /\ call = NoCall
    /\ request = <<>>
    /\ sends = 0
    /\ inflight = {}
    /\ reply = NoReply
    /\ outcome = NoErr
    /\ ncalls = 0
    /\ ids = <<>>
    /\ failures = 0

\* $selff.id += 1: past u64::MAX the addition panics in a build with
\* overflow checks and wraps to 0 in a build without.
IdOverflows(cur) == cur = U64Max
NextIdNoIncrement(cur) == cur
NextId(cur) == IF IdOverflows(cur) THEN 0 ELSE cur + 1

\* The generated method, with the id incremented only once the request is
\* encoded.
CallMethodIdAfterEncoding(spec, params, overflow_checks) ==
    LET started == call_method_request(NextId(id), spec.name, params)
    IN  /\ ncalls' = ncalls + 1
        /\ reply' = NoReply
        /\ UNCHANGED failures
        /\ call' = [id |-> NextId(id), name |-> spec.name,
                    params |-> params, ret |-> spec.ret]
        /\ IF started.kind = "send"
           THEN /\ id' = NextId(id)
                /\ ids' = Append(ids, NextId(id))
                /\ pc' = "sending"
                /\ request' = started.bytes
                /\ sends' = sends + 1
                /\ inflight' = inflight \cup { NextId(id) }
                /\ UNCHANGED outcome
           ELSE /\ UNCHANGED << id, ids >>
                /\ pc' = "returned"
                /\ outcome' = Panic("called Result::unwrap() on an Err value")
                /\ UNCHANGED << request, sends, inflight >>

\* The generated method $method(&mut self, args..), up to the point where
\* call_method blocks in transport.send or ends without sending.
CallMethod(spec, params, overflow_checks) ==
    /\ ncalls' = ncalls + 1
    /\ reply' = NoReply
    /\ UNCHANGED failures
    /\ IF IdOverflows(id) /\ overflow_checks
       THEN /\ UNCHANGED << id, ids >>
            /\ call' = [id |-> id, name |-> spec.name, params |-> params, ret |-> spec.ret]
            /\ pc' = "returned"
            /\ outcome' = Panic("attempt to add with overflow")
            /\ UNCHANGED << request, sends, inflight >>
       ELSE LET started == call_method_request(NextId(id), spec.name, params)
            IN  /\ id' = NextId(id)
                /\ ids' = Append(ids, NextId(id))
                /\ call' = [id |-> NextId(id), name |-> spec.name,
                            params |-> params, ret |-> spec.ret]
                /\ IF started.kind = "send"
                   THEN /\ pc' = "sending"
                        /\ request' = started.bytes
                        /\ sends' = sends + 1
                        /\ inflight' = inflight \cup { NextId(id) }
                        /\ UNCHANGED outcome
                   ELSE /\ pc' = "returned"
                        /\ outcome' = IF started.kind = "panic"
                                      THEN Panic("called Result::unwrap() on an Err value")
                                      ELSE SerializeError
                        /\ UNCHANGED << request, sends, inflight >>

\* transport.send returns and call_method runs to its end.
SendReturns ==
    /\ pc = "sending"
    /\ \E sent \in Replies(request) :
         /\ reply' = sent
         /\ outcome' = OutcomeOf(call_method_response(call.ret, sent, call.id))
    /\ pc' = "returned"
    /\ inflight' = inflight \ { call.id }
    /\ UNCHANGED << id, call, request, sends, ncalls, ids, failures >>

\* The caller takes the outcome; the call's locals are gone.
Return ==
    /\ pc = "returned"
    /\ pc' = "idle"
    /\ failures' = IF outcome.kind = "Success" THEN failures ELSE failures + 1
    /\ call' = NoCall
    /\ request' = <<>>
    /\ sends' = 0
    /\ reply' = NoReply
    /\ outcome' = NoErr
    /\ UNCHANGED << id, inflight, ncalls, ids >>

\* A call of any generated method with any arguments, begun whether or not
\* an earlier call of the instance has returned.
CallWhileSending ==
    /\ ncalls < MaxCalls
    /\ \E spec \in MethodSpecs : \E params \in ArgTuples(spec) :
         \E overflow_checks \in BOOLEAN : CallMethod(spec, params, overflow_checks)

\* A call of any generated method with any arguments, in a build with or
\* without overflow checks.  The method takes &mut self and returns when
\* call_method has: no call of the instance begins before the one in
\* progress has returned.
Call ==
    /\ pc = "idle"
    /\ ncalls < MaxCalls
    /\ \E spec \in MethodSpecs : \E params \in ArgTuples(spec) :
         \E overflow_checks \in BOOLEAN : CallMethod(spec, params, overflow_checks)

Next ==
    \/ Call
    \/ SendReturns
    \/ Return

Spec == Init /\ [][Next]_vars

\* The instance after u64::MAX - 1 calls that have returned: its id is
\* u64::MAX - 1, and the ids 1..u64::MAX - 1 have been used.  ncalls, ids
\* and failures count from here on.
InitNearMax ==
    /\ id = U64Max - 1
    /\ pc = "idle"
    /\ call = NoCall
    /\ request = <<>>
    /\ sends = 0
    /\ inflight = {}
    /\ reply = NoReply
    /\ outcome = NoErr
    /\ ncalls = 0
    /\ ids = <<>>
    /\ failures = 0

SpecNearMax == InitNearMax /\ [][Next]_vars

(***************************************************************************)
(* What the claims speak of                                                *)
(***************************************************************************)
Returned == pc = "returned"
\* The reply of the call, parsed.
Resp == from_slice(reply.bytes)
RespIsObject == reply.kind = "Ok" /\ Resp.ok /\ Resp.val.t = "obj"
RespField(key) == MapGet(Resp.val.v, key)
VersionOk == RespField(K_jsonrpc) = Some(JStr(V_2_0))
IdOk == RespField(K_id) = Some(JPosInt(call.id))
\* The reply is an object that passes the version and the id check.
PassesShapeChecks == RespIsObject /\ VersionOk /\ IdOk

IsInteger(val) == val.t \in {"PosInt", "NegInt"}
IsI64(val) == val.t = "NegInt" \/ (val.t = "PosInt" /\ val.v <= I64Max)
\* An object with a code and a string message.
IsErrorObject(e) ==
    /\ e.t = "obj"
    /\ K_code \in DOMAIN e.v
    /\ K_message \in DOMAIN e.v
    /\ e.v[K_message].t = "str"
\* The RPC error object of the data model: code i64, message string.
WellFormedError(e) == IsErrorObject(e) /\ IsI64(e.v[K_code])
\* The outcome is the remote error that the error object e describes.
IsRemoteErrorOf(e) ==
    /\ outcome.kind = "JsonRpcError"
    /\ ErrorCodeValue(outcome.val.v.code) = e.v[K_code].v
    /\ outcome.val.v.message = e.v[K_message].v
    /\ outcome.val.v.data = MapGet(e.v, K_data)
\* The result field fits the return type of the call.
ResultFits(val) ==
    \/ call.ret = "Value"
    \/ call.ret = "String" /\ val.t = "str"
    \/ call.ret = "unit" /\ val = JNull
Unserializable(a) == a.ty = "TupleKeyMap" /\ a.n > 0
\* The request of the call, parsed.
Req == from_slice(request)
\* The JSON array of the arguments of the call, in declaration order.
ParamsArray == JArr([i \in 1..Len(call.params) |-> to_value_arg(call.params[i]).val])

(***************************************************************************)
(* C1: the k-th call on a client instance uses id k, in its request too,   *)
(* whatever the outcomes of the calls before it.                           *)
(***************************************************************************)
C1_IdsCountCalls ==
    /\ ids = [k \in 1..ncalls |-> k]
    /\ pc # "idle" => call.id = ncalls
    /\ pc = "sending" => /\ Req.ok /\ Req.val.t = "obj"
                         /\ MapGet(Req.val.v, K_id) = Some(JPosInt(ncalls))

\* The third call is being sent after one failed and one successful call.
C1_Witness == pc = "sending" /\ ncalls = 3 /\ failures = 1 /\ call.id = 3

(***************************************************************************)
(* C2: a reply that passes the version and id checks and has both a        *)
(* well-formed error and a result ends the call in the remote error of     *)
(* that error object, never in success.                                    *)
(***************************************************************************)
C2_ErrorBeforeResult ==
    (/\ Returned
     /\ PassesShapeChecks
     /\ RespField(K_error).some
     /\ WellFormedError(RespField(K_error).val)
     /\ RespField(K_result).some)
    => IsRemoteErrorOf(RespField(K_error).val)

\* Both fields are there, the result alone would have made the call succeed.
C2_Witness ==
    /\ Returned
    /\ PassesShapeChecks
    /\ RespField(K_error).some
    /\ WellFormedError(RespField(K_error).val)
    /\ RespField(K_result).some
    /\ ResultFits(RespField(K_result).val)
    /\ outcome.kind = "JsonRpcError"

(***************************************************************************)
(* C3: an object reply whose jsonrpc field is absent or is not the string  *)
(* "2.0" fails the call with the wrong-version response error, whatever    *)
(* its id, error and result fields are.                                    *)
(***************************************************************************)
C3_VersionCheckedFirst ==
    (Returned /\ RespIsObject /\ ~VersionOk)
    => outcome = ResponseError("Response is not JSON-RPC 2.0 compatible", "")

\* No jsonrpc field, a wrong id, a well-formed error and a fitting result.
C3_Witness ==
    /\ Returned
    /\ RespIsObject
    /\ ~RespField(K_jsonrpc).some
    /\ RespField(K_id).some
    /\ ~IdOk
    /\ RespField(K_error).some
    /\ WellFormedError(RespField(K_error).val)
    /\ RespField(K_result).some
    /\ ResultFits(RespField(K_result).val)
    /\ outcome.kind = "ResponseError"

(***************************************************************************)
(* C4: a reply with jsonrpc "2.0" whose id is absent or is not the id of   *)
(* the request fails the call with the id-mismatch response error, with a  *)
(* result, an error, both or neither.                                      *)
(***************************************************************************)
C4_IdMismatch ==
    (Returned /\ RespIsObject /\ VersionOk /\ ~IdOk)
    => outcome = ResponseError("Response id not equal to request id", "")

\* The id of another call of the instance, next to a fitting result.
C4_Witness ==
    /\ Returned
    /\ RespIsObject
    /\ VersionOk
    /\ call.id = 1
    /\ RespField(K_id) = Some(JPosInt(2))
    /\ ~RespField(K_error).some
    /\ RespField(K_result).some
    /\ ResultFits(RespField(K_result).val)
    /\ outcome.kind = "ResponseError"

(***************************************************************************)
(* C5: the params of every request are the JSON array of the arguments in  *)
(* declaration order; a method without arguments sends [].                 *)
(***************************************************************************)
C5_ParamsIsArray ==
    pc = "sending" =>
        /\ Req.ok /\ Req.val.t = "obj"
        /\ MapGet(Req.val.v, K_params) = Some(ParamsArray)

\* What does hold: the array for one argument or more, null for none.
C5_ArrayUnlessNoArguments ==
    pc = "sending" =>
        MapGet(Req.val.v, K_params) = IF call.params = <<>> THEN Some(JNull) ELSE Some(ParamsArray)

(***************************************************************************)
(* C6: a call with a parameter value that cannot be serialized returns     *)
(* the serialize error and never invokes the transport's send.             *)
(***************************************************************************)
C6_SerializeErrorReturned ==
    (Returned /\ \E i \in 1..Len(call.params) : Unserializable(call.params[i]))
    => (outcome = SerializeError /\ sends = 0)

\* What does hold: the call panics, and send is not invoked.
C6_PanicsWithoutSending ==
    (Returned /\ \E i \in 1..Len(call.params) : Unserializable(call.params[i]))
    => (outcome.kind = "Panic" /\ sends = 0 /\ request = <<>>)

(***************************************************************************)
(* C7: a call invokes send at most once, exactly once when the encoding    *)
(* succeeds, and ends in exactly one of success, remote error, response    *)
(* error, transport error and serialize error; a failed send gives the     *)
(* transport error.                                                        *)
(***************************************************************************)
C7_OneSendOneOutcome ==
    /\ sends <= 1
    /\ Returned =>
        /\ outcome.kind \in { "Success", "JsonRpcError", "ResponseError",
                              "TransportError", "SerializeError" }
        /\ sends = 0 <=> \E i \in 1..Len(call.params) : Unserializable(call.params[i])
        /\ reply.kind = "Err" => outcome = TransportError

\* What does hold: no second send, and one of the five outcomes once sent.
C7_OneSendOneOutcomeOnceSent ==
    /\ sends <= 1
    /\ (Returned /\ sends = 1) =>
        /\ outcome.kind \in { "Success", "JsonRpcError", "ResponseError", "TransportError" }
        /\ reply.kind = "Err" <=> outcome = TransportError

(***************************************************************************)
(* C8: a call changes nothing of the client but the id, which grows by 1   *)
(* per call whatever the outcome, and earlier failures do not change what  *)
(* a call returns: a reply that is a proper success response for the call  *)
(* makes it succeed, a failed send fails it with the transport error.      *)
(***************************************************************************)
C8_OutcomeFromOwnReply ==
    /\ (/\ Returned
        /\ PassesShapeChecks
        /\ ~RespField(K_error).some
        /\ RespField(K_result).some
        /\ ResultFits(RespField(K_result).val))
       => /\ outcome.kind = "Success"
          /\ call.ret # "unit" => outcome.val = RespField(K_result).val
    /\ (Returned /\ reply.kind = "Err") => outcome = TransportError

C8_IdGrowsByOnePerCall ==
    \/ ncalls' = ncalls + 1 /\ id' = id + 1
    \/ ncalls' = ncalls /\ id' = id

C8_FailureLeavesNoTrace == [](C8_OutcomeFromOwnReply) /\ [][C8_IdGrowsByOnePerCall]_vars

\* The third call succeeds after two failed calls, with id 3.
C8_Witness ==
    /\ Returned
    /\ failures = 2
    /\ id = 3
    /\ outcome.kind = "Success"

(***************************************************************************)
(* C9: a reply that passes the version and id checks and whose error is an *)
(* object with an integer code that fits i64 and a string message ends the *)
(* call in the remote error with that code, message and data; -32600 is    *)
(* the InvalidRequest variant, an unknown code is kept; data may be absent. *)
(***************************************************************************)
C9_RemoteErrorCarriesObject ==
    (/\ Returned
     /\ PassesShapeChecks
     /\ RespField(K_error).some
     /\ WellFormedError(RespField(K_error).val))
    => /\ IsRemoteErrorOf(RespField(K_error).val)
       /\ RespField(K_error).val.v[K_code].v = -32600
            => outcome.val.v.code.variant = "InvalidRequest"
       /\ RespField(K_error).val.v[K_code].v = 7
            => outcome.val.v.code = [variant |-> "ServerError", n |-> 7]

\* An error object without data, and the remote error has none.
C9_Witness ==
    /\ Returned
    /\ PassesShapeChecks
    /\ RespField(K_error).some
    /\ WellFormedError(RespField(K_error).val)
    /\ K_data \notin DOMAIN RespField(K_error).val.v
    /\ outcome.kind = "JsonRpcError"
    /\ outcome.val.v.data = None

\* C9 as stated: every integer code.
C9_AnyIntegerCode ==
    (/\ Returned
     /\ PassesShapeChecks
     /\ RespField(K_error).some
     /\ IsErrorObject(RespField(K_error).val)
     /\ IsInteger(RespField(K_error).val.v[K_code]))
    => IsRemoteErrorOf(RespField(K_error).val)

(***************************************************************************)
(* C10: the request bytes parse back to the object with jsonrpc "2.0", the *)
(* id of the call, the method's name and the arguments in order as params; *)
(* echoed back as the result under that id, they make the call succeed     *)
(* with that object as the value.                                          *)
(***************************************************************************)
RequestObject(params) ==
    JObj(MapOf(<< << K_jsonrpc, JStr(V_2_0) >>,
                  << K_id, JPosInt(call.id) >>,
                  << K_method, JStr(call.name) >>,
                  << K_params, params >> >>))

C10_RequestRoundTrip ==
    /\ pc = "sending" => (Req.ok /\ Req.val = RequestObject(ParamsArray))
    /\ (/\ Returned
        /\ call.ret = "Value"
        /\ reply.kind = "Ok"
        /\ Len(reply.bytes) > Len(request)
        /\ reply = EchoTransport_send(request, call.id))
       => outcome = Success(RequestObject(ParamsArray))

\* What does hold: the same with the params the call serialized (null for
\* a method without arguments).
C10_RoundTripOfSentParams ==
    /\ pc = "sending" => (Req.ok /\ Req.val = RequestObject(to_value(call.params).val))
    /\ (/\ Returned
        /\ call.ret = "Value"
        /\ reply.kind = "Ok"
        /\ Len(reply.bytes) > Len(request)
        /\ reply = EchoTransport_send(request, call.id))
       => outcome = Success(RequestObject(to_value(call.params).val))

(***************************************************************************)
(* C11: a call succeeds exactly when the send succeeded and the reply is   *)
(* an object with jsonrpc "2.0", the id of the request, no error field and *)
(* a result that deserializes into the return type, and then its value is  *)
(* the deserialized result; a result that is there and does not            *)
(* deserialize fails the call with the type-mismatch response error.       *)
(***************************************************************************)
\* The value of type call.ret that the JSON value val deserializes into.
Deserialized(val) == IF call.ret = "unit" THEN [t |-> "unit", v |-> "()"] ELSE val

C11_SuccessIff ==
    Returned =>
        /\ outcome.kind = "Success"
             <=> (/\ reply.kind = "Ok"
                  /\ PassesShapeChecks
                  /\ ~RespField(K_error).some
                  /\ RespField(K_result).some
                  /\ ResultFits(RespField(K_result).val))
        /\ outcome.kind = "Success"
             => outcome.val = Deserialized(RespField(K_result).val)
        /\ (/\ PassesShapeChecks
            /\ ~RespField(K_error).some
            /\ RespField(K_result).some
            /\ ~ResultFits(RespField(K_result).val))
           => outcome = ResponseError("Result cannot deserialize to target type", "")

\* A method that returns a String gets the result null.
C11_Witness ==
    /\ Returned
    /\ PassesShapeChecks
    /\ ~RespField(K_error).some
    /\ call.ret = "String"
    /\ RespField(K_result) = Some(JNull)
    /\ outcome.kind = "ResponseError"
    /\ outcome.msg = "Result cannot deserialize to target type"

(***************************************************************************)
(* C12: an object reply with neither an error nor a result fails the call  *)
(* with a response error; one with both never makes the call succeed: it   *)
(* gives the remote error when it passes the version and id checks and the *)
(* error is well-formed, and a response error otherwise.                   *)
(***************************************************************************)
HasBoth == RespField(K_error).some /\ RespField(K_result).some
HasNeither == ~RespField(K_error).some /\ ~RespField(K_result).some

C12_NeitherFailsBothIsError ==
    (Returned /\ RespIsObject) =>
        /\ HasNeither => outcome.kind = "ResponseError"
        /\ HasBoth =>
             outcome.kind = IF PassesShapeChecks /\ WellFormedError(RespField(K_error).val)
                            THEN "JsonRpcError" ELSE "ResponseError"

\* The second call of the instance gets a well-formed error without data
\* next to the result null, and ends in the remote error.
C12_Witness ==
    /\ Returned
    /\ call.id = 2
    /\ PassesShapeChecks
    /\ HasBoth
    /\ RespField(K_result).val = JNull
    /\ WellFormedError(RespField(K_error).val)
    /\ K_data \notin DOMAIN RespField(K_error).val.v
    /\ outcome.kind = "JsonRpcError"

\* C12 as stated: both or neither ends in a response error.
C12_BothOrNeitherIsResponseError ==
    (Returned /\ RespIsObject /\ (HasBoth \/ HasNeither))
    => outcome.kind = "ResponseError"

(***************************************************************************)
(* C13: a reply that passes the version and id checks and whose error is   *)
(* not an object, or has no code or a code that is not an integer, or has  *)
(* no message or a message that is not a string, fails the call with the   *)
(* malformed-error response error, with or without a result next to it.    *)
(***************************************************************************)
\* What is wrong with the error e, in the order the code looks: "" if nothing.
ErrorDefect(e) ==
    IF e.t # "obj" THEN "Error is not a json object"
    ELSE IF K_code \notin DOMAIN e.v THEN "Error has no code field"
    ELSE IF ~IsInteger(e.v[K_code]) THEN "Malformed code field in error"
    ELSE IF K_message \notin DOMAIN e.v \/ e.v[K_message].t # "str"
    THEN "Error has no message field of string type"
    ELSE ""

C13_MalformedErrorFails ==
    (/\ Returned
     /\ PassesShapeChecks
     /\ RespField(K_error).some
     /\ ErrorDefect(RespField(K_error).val) # "")
    => outcome = ResponseError("Malformed error object",
                               ErrorDefect(RespField(K_error).val))

\* An error object without a message, next to a result that fits.
C13_Witness ==
    /\ Returned
    /\ PassesShapeChecks
    /\ RespField(K_error).some
    /\ RespField(K_error).val.t = "obj"
    /\ K_code \in DOMAIN RespField(K_error).val.v
    /\ K_message \notin DOMAIN RespField(K_error).val.v
    /\ RespField(K_result).some
    /\ ResultFits(RespField(K_result).val)
    /\ outcome.kind = "ResponseError"
    /\ outcome.msg = "Malformed error object"

(***************************************************************************)
(* C14: a reply with jsonrpc "2.0" and the id of the request that has      *)
(* neither an error nor a result fails the call with the no-result         *)
(* response error, whatever the return type of the method.                 *)
(***************************************************************************)
C14_NoResultField ==
    (Returned /\ PassesShapeChecks /\ HasNeither)
    => outcome = ResponseError("Response has no \"result\" field", "")

\* A method that returns () gets a reply with neither field.
C14_Witness ==
    /\ Returned
    /\ PassesShapeChecks
    /\ HasNeither
    /\ call.ret = "unit"
    /\ outcome.kind = "ResponseError"
    /\ outcome.msg = "Response has no \"result\" field"

(***************************************************************************)
(* C15: reply bytes that are no valid JSON fail the call with the          *)
(* not-valid-json response error, and valid JSON that is no object (an     *)
(* array, a string, a number, null) with the not-an-object response error: *)
(* no error of the version, id, error or result checks comes out.          *)
(***************************************************************************)
\* Byte sequences that are no JSON text: a word, nothing, an object cut
\* short, an object followed by a letter.
NotJson ==
    { << "o", "k" >>, <<>>, << "{", "\"", "i", "d", "\"", ":", "1" >>, << "{", "}", "x" >> }
\* JSON texts for null, an array, a string and a number.
NotAnObject ==
    { << "n", "u", "l", "l" >>, << "[", "1", "]" >>, << "\"", "2", ".", "0", "\"" >>, << "1" >> }

C15_NotJsonOrNotObject ==
    (Returned /\ reply.kind = "Ok") =>
        /\ (reply.bytes \in NotJson \/ ~Resp.ok)
             => outcome = ResponseError("Response is not valid json", "")
        /\ (reply.bytes \in NotAnObject \/ (Resp.ok /\ Resp.val.t # "obj"))
             => outcome = ResponseError("Response is not a json object", "")

\* The reply is the JSON array [1].
C15_Witness ==
    /\ Returned
    /\ reply = SendOk(<< "[", "1", "]" >>)
    /\ outcome.kind = "ResponseError"
    /\ outcome.msg = "Response is not a json object"

(***************************************************************************)
(* C16: at most one send of a client instance is outstanding at any time;  *)
(* a call begins (adds to the id, invokes send) only when no earlier call  *)
(* of the instance is still in progress, and each send carries an id above *)
(* the ids of all calls before it.                                         *)
(***************************************************************************)
C16_OneOutstanding ==
    /\ Cardinality(inflight) <= 1
    /\ inflight # {} => (pc = "sending" /\ inflight = { call.id })

C16_CallsDoNotOverlap ==
    /\ (ncalls' # ncalls \/ id' # id \/ sends' > sends)
         => (pc = "idle" /\ inflight = {} /\ call = NoCall)
    /\ (inflight' # inflight /\ inflight' # {})
         => \A k \in 1..Len(ids) : \A i \in inflight' : ids[k] < i

C16_OneSendAtATime == [](C16_OneOutstanding) /\ [][C16_CallsDoNotOverlap]_vars

\* The send of the third call is outstanding; the sends of two earlier
\* calls have returned.
C16_Witness ==
    /\ pc = "sending"
    /\ inflight = { 3 }
    /\ ids = << 1, 2, 3 >>
    /\ sends = 1

(***************************************************************************)
(* C17: the id of a reply passes the id check exactly when it is a JSON    *)
(* integer equal to the id of the request: the string "1", the float 1.0   *)
(* and null are refused with the id-mismatch response error, for the       *)
(* request with id 1 too.                                                  *)
(***************************************************************************)
\* The id field of the reply is the JSON integer n.
IdIsInteger(n) ==
    /\ RespField(K_id).some
    /\ RespField(K_id).val.t = "PosInt"
    /\ RespField(K_id).val.v = n

C17_IdIsExactInteger ==
    (Returned /\ RespIsObject /\ VersionOk) =>
        /\ outcome = ResponseError("Response id not equal to request id", "")
             <=> ~IdIsInteger(call.id)
        /\ (/\ RespField(K_id).some
            /\ RespField(K_id).val \in { JStr(<< "1" >>), JFloat(FALSE, 1, <<>>), JNull })
           => outcome = ResponseError("Response id not equal to request id", "")

\* The first call gets the id 1.0 and a result that fits.
C17_Witness ==
    /\ Returned
    /\ RespIsObject
    /\ VersionOk
    /\ call.id = 1
    /\ RespField(K_id) = Some(JFloat(FALSE, 1, <<>>))
    /\ ~RespField(K_error).some
    /\ RespField(K_result).some
    /\ ResultFits(RespField(K_result).val)
    /\ outcome = ResponseError("Response id not equal to request id", "")

(***************************************************************************)
(* C18: the id never wraps: no request carries the id 0 or an id that an   *)
(* earlier call of the instance used, also for the call made when the id   *)
(* field holds u64::MAX.                                                   *)
(***************************************************************************)
\* The ids used by the calls before the one in progress: the ids below the
\* first id of this run (the field counts up from 0) and the ids of the
\* earlier calls of this run.
UsedBefore ==
    IF ids = <<>> THEN {}
    ELSE (1..(ids[1] - 1)) \cup { ids[k] : k \in 1..(Len(ids) - 1) }

C18_IdNeverWraps ==
    pc = "sending" => (call.id # 0 /\ call.id \notin UsedBefore)

\* What does hold: with overflow checks the call made at u64::MAX panics
\* before it sends and leaves the id alone; without, its request has id 0.
C18_PanicsOrWraps ==
    /\ (Returned /\ outcome = Panic("attempt to add with overflow"))
         => (id = U64Max /\ sends = 0 /\ request = <<>>)
    /\ (pc = "sending" /\ Len(ids) >= 2 /\ ids[Len(ids) - 1] = U64Max)
         => (call.id = 0 /\ MapGet(Req.val.v, K_id) = Some(JPosInt(0)))
====
